---- MODULE Spec2Model ----
(***************************************************************************)
(* Model of data/raw/elections/ingham-county/extract_races.py.             *)
(*                                                                         *)
(* Strings are sequences of code points, so that concatenation and the     *)
(* ordering used by sorted() are computed, not assumed.  Python's None is  *)
(* the one-element sequence <<-1>>, which is no string.  A CSV file is a   *)
(* header (sequence of field names) and a sequence of raw rows (sequences  *)
(* of strings), mapped to dictionaries the way csv.DictReader does.        *)
(***************************************************************************)
EXTENDS Integers, Sequences, FiniteSets, TLC

VARIABLES fs, pc, idx, open, pos, races, result, err, out

vars == <<fs, pc, idx, open, pos, races, result, err, out>>

----------------------------------------------------------------------------
(* Bounds *)

MaxRows == 2        \* data rows per file, extraction alone
MaxMainRows == 1    \* data rows per file, whole driver run

----------------------------------------------------------------------------
(* Strings *)

None == <<-1>>
NoneText == <<78, 111, 110, 101>>                              \* "None"
Ingham == <<73, 110, 103, 104, 97, 109>>                       \* "Ingham"
InghamLower == <<105, 110, 103, 104, 97, 109>>                 \* "ingham"
InghamSpace == <<73, 110, 103, 104, 97, 109, 32>>              \* "Ingham "
DistrictSep == <<32, 45, 32, 68, 105, 115, 116, 114, 105, 99, 116, 32>>
                                                               \* " - District "
StrA == <<65>>                                                 \* "A"
StrB == <<66>>                                                 \* "B"
Str1 == <<49>>                                                 \* "1"
StrADistrict1 == StrA \o DistrictSep \o Str1                   \* "A - District 1"
Empty == <<>>                                                  \* ""

Min(a, b) == IF a < b THEN a ELSE b

\* a < b for str: the first differing code point decides, a proper prefix
\* is smaller.
StrLess(a, b) ==
    \E i \in 1..(Min(Len(a), Len(b)) + 1) :
        /\ \A j \in 1..(i - 1) : a[j] = b[j]
        /\ \/ i > Len(a) /\ i <= Len(b)
           \/ i <= Len(a) /\ i <= Len(b) /\ a[i] < b[i]

----------------------------------------------------------------------------
(* csv.DictReader *)

HasKey(h, k) == \E i \in 1..Len(h) : h[i] = k

\* row[k] for a key the header declares: the value at the key's column, or
\* restval (None) when the row is shorter than the header.  Values beyond
\* the header go under restkey and are never read.
Field(h, r, k) ==
    LET i == CHOOSE n \in 1..Len(h) : h[n] = k
    IN  IF i <= Len(r) THEN r[i] ELSE None

----------------------------------------------------------------------------
(* extract_races, row by row *)

CountyMatchesLoose(c) == c \in {Ingham, InghamLower, InghamSpace}
CountyMatches(c) == c = Ingham

Truthy(v) == v # None /\ v # Empty

\* {v} inside an f-string
Format(v) == IF v = None THEN NoneText ELSE v

LabelNoSep(office, district) ==
    IF Truthy(district) THEN Format(office) \o Format(district) ELSE office
LabelOfficeOnly(office, district) == office
Label(office, district) ==
    IF Truthy(district)
    THEN Format(office) \o DistrictSep \o Format(district)
    ELSE office

InSeq(s, x) == \E i \in 1..Len(s) : s[i] = x

\* races.add(x): the set is held as the sequence of its members in
\* insertion order.
ListAppend(s, x) == Append(s, x)
SetAdd(s, x) == IF InSeq(s, x) THEN s ELSE Append(s, x)

Ok(s) == [raised |-> FALSE, races |-> s]
KeyError == [raised |-> TRUE, races |-> <<>>]

\* the body of the for loop for one row dictionary
RowStepEager(h, r, s) ==
    IF ~HasKey(h, "county") \/ ~HasKey(h, "office") \/ ~HasKey(h, "district")
    THEN KeyError
    ELSE IF ~CountyMatches(Field(h, r, "county")) THEN Ok(s)
    ELSE Ok(SetAdd(s, Label(Field(h, r, "office"), Field(h, r, "district"))))
RowStep(h, r, s) ==
    IF ~HasKey(h, "county") THEN KeyError
    ELSE IF ~CountyMatches(Field(h, r, "county")) THEN Ok(s)
    ELSE IF ~HasKey(h, "office") THEN KeyError
    ELSE IF ~HasKey(h, "district") THEN KeyError
    ELSE Ok(SetAdd(s, Label(Field(h, r, "office"), Field(h, r, "district"))))

\* sorted() compares members; None against a str is a TypeError.
SortRaises(s) == Len(s) >= 2 /\ InSeq(s, None)

InsertFront(x, s) == <<x>> \o s
RECURSIVE InsertSorted(_, _)
InsertSorted(x, s) ==
    IF s = <<>> THEN <<x>>
    ELSE IF StrLess(x, Head(s)) THEN <<x>> \o s
    ELSE <<Head(s)>> \o InsertSorted(x, Tail(s))

RECURSIVE SortFrom(_, _)
SortFrom(s, acc) ==
    IF s = <<>> THEN acc ELSE SortFrom(Tail(s), InsertSorted(Head(s), acc))

Unsorted(s) == s
Sorted(s) == SortFrom(s, <<>>)

\* an exception nothing catches: neither extract_races nor main has a handler
RaiseCaught(e) == [pc |-> "returned", err |-> e]
Raise(e) == [pc |-> "raised", err |-> e]

\* leaving the with block
LeaveOpen(o, f) == o
WithExit(o, f) == o \ {f}

\* extract_races as a function of the file: what it returns or raises
Returns(rs) == [raised |-> FALSE, err |-> "none", result |-> rs]
Raises(e) == [raised |-> TRUE, err |-> e, result |-> <<>>]

RECURSIVE Scan(_, _, _, _)
Scan(h, rows, i, s) ==
    IF i > Len(rows)
    THEN IF SortRaises(s) THEN Raises("TypeError") ELSE Returns(Sorted(s))
    ELSE IF rows[i] = <<>> THEN Scan(h, rows, i + 1, s)
    ELSE LET step == RowStep(h, rows[i], s)
         IN  IF step.raised THEN Raises("KeyError")
             ELSE Scan(h, rows, i + 1, step.races)

ExtractRaces(t) ==
    IF ~t.exists THEN Raises("FileNotFoundError")
    ELSE Scan(t.header, t.rows, 1, <<>>)

----------------------------------------------------------------------------
(* Files *)

NFiles == 3
Years == <<2024, 2022, 2020>>

NoFile == [exists |-> FALSE, header |-> <<>>, rows |-> <<>>]
Table(h, rs) == [exists |-> TRUE, header |-> h, rows |-> rs]

Counties == {Ingham, InghamLower, InghamSpace}
Offices == {StrA, StrB, StrADistrict1}
Districts == {Empty, Str1}

Dom(k) == IF k = "county" THEN Counties
          ELSE IF k = "office" THEN Offices
          ELSE Districts

Headers == { <<"county", "office", "district">>,
             <<"county", "district", "office">>,
             <<"county", "office">>,
             <<"county", "district">>,
             <<"office", "district">> }

\* raw rows for a header: every declared column filled, or cut short
RowsFor(h) ==
    UNION { { r \in [1..n -> Counties \cup Offices \cup Districts] :
                \A i \in 1..n : r[i] \in Dom(h[i]) } : n \in 0..Len(h) }

SeqsUpTo(S, n) == UNION { [1..m -> S] : m \in 0..n }

MainHeaders == { <<"county", "office", "district">>, <<"county", "district">> }
MainRows == { <<Ingham, StrB, Str1>>, <<Ingham, StrA, Empty>>,
              <<InghamLower, StrA, Empty>>, <<Ingham>> }
MainTables == { Table(h, rs) : h \in MainHeaders,
                               rs \in SeqsUpTo(MainRows, MaxMainRows) }
              \cup {NoFile}

----------------------------------------------------------------------------
(* Printed lines; year and label are kept apart instead of rendered *)

Line(k, y, l, n) == [kind |-> k, year |-> y, label |-> l, n |-> n]
Rule(y) == Line("rule", y, <<>>, 0)
Title(y) == Line("title", y, <<>>, 0)
RaceLine(y, l) == Line("race", y, l, 0)
TotalLine(y, n) == Line("total", y, <<>>, n)

Banner(y) == <<Rule(y), Title(y), Rule(y)>>
ReportCountsLines(y, rs) ==
    [i \in 1..Len(rs) |-> RaceLine(y, rs[i])] \o <<TotalLine(y, Len(rs) + 1)>>
Report(y, rs) == [i \in 1..Len(rs) |-> RaceLine(y, rs[i])] \o <<TotalLine(y, Len(rs))>>

----------------------------------------------------------------------------
(* State machine *)

Start(files, p) ==
    /\ fs = files
    /\ pc = p
    /\ idx = 1
    /\ open = {}
    /\ pos = 0
    /\ races = <<>>
    /\ result = <<>>
    /\ err = "none"
    /\ out = <<>>

\* main() over three files
Init == \E files \in [1..NFiles -> MainTables] : Start(files, "loop")

OnlyFile(t) == [i \in 1..NFiles |-> IF i = 1 THEN t ELSE NoFile]

\* a single call extract_races(path)
InitExtract ==
    \/ Start(OnlyFile(NoFile), "call")
    \/ \E h \in Headers : \E m \in 0..MaxRows : \E rs \in [1..m -> RowsFor(h)] :
          Start(OnlyFile(Table(h, rs)), "call")

\* for year, filename in files.items(): the three banner prints
MainBanner ==
    /\ pc = "loop"
    /\ idx <= NFiles
    /\ out' = out \o Banner(Years[idx])
    /\ pc' = "call"
    /\ UNCHANGED <<fs, idx, open, pos, races, result, err>>

\* the loop is exhausted
MainExit ==
    /\ pc = "loop"
    /\ idx > NFiles
    /\ pc' = "done"
    /\ UNCHANGED <<fs, idx, open, pos, races, result, err, out>>

\* races = set(); open(csv_file); csv.DictReader(f)
Open ==
    /\ pc = "call"
    /\ races' = <<>>
    /\ IF ~fs[idx].exists
       THEN /\ pc' = Raise("FileNotFoundError").pc
            /\ err' = Raise("FileNotFoundError").err
            /\ UNCHANGED <<open, pos>>
       ELSE /\ pc' = "read"
            /\ open' = open \cup {idx}
            /\ pos' = 0
            /\ UNCHANGED err
    /\ UNCHANGED <<fs, idx, result, out>>

\* one line of the file: blank lines are skipped by the reader, any other
\* goes through the loop body; an exception leaves the with block.
ReadRow ==
    /\ pc = "read"
    /\ pos < Len(fs[idx].rows)
    /\ pos' = pos + 1
    /\ LET r == fs[idx].rows[pos + 1]
           step == RowStep(fs[idx].header, r, races)
       IN  IF r = <<>>
           THEN UNCHANGED <<pc, err, open, races>>
           ELSE IF step.raised
           THEN /\ pc' = Raise("KeyError").pc
                /\ err' = Raise("KeyError").err
                /\ open' = WithExit(open, idx)
                /\ UNCHANGED races
           ELSE /\ races' = step.races
                /\ UNCHANGED <<pc, err, open>>
    /\ UNCHANGED <<fs, idx, result, out>>

\* the reader is exhausted: the with block is left, then sorted(races)
EndOfRows ==
    /\ pc = "read"
    /\ pos = Len(fs[idx].rows)
    /\ open' = WithExit(open, idx)
    /\ IF SortRaises(races)
       THEN /\ pc' = Raise("TypeError").pc
            /\ err' = Raise("TypeError").err
            /\ UNCHANGED result
       ELSE /\ pc' = "returned"
            /\ result' = Sorted(races)
            /\ UNCHANGED err
    /\ UNCHANGED <<fs, idx, pos, races, out>>

\* the race lines and the total of one file, then the next file
PrintReport ==
    /\ pc = "returned"
    /\ out' = out \o Report(Years[idx], result)
    /\ idx' = idx + 1
    /\ pc' = "loop"
    /\ UNCHANGED <<fs, open, pos, races, result, err>>

Next == MainBanner \/ MainExit \/ Open \/ ReadRow \/ EndOfRows \/ PrintReport

NextExtract == Open \/ ReadRow \/ EndOfRows

Spec == Init /\ [][Next]_vars

SpecExtract == InitExtract /\ [][NextExtract]_vars

----------------------------------------------------------------------------
(* Vocabulary of the properties *)

Required == {"county", "office", "district"}

NonBlank(t) == { i \in 1..Len(t.rows) : t.rows[i] # <<>> }

\* the rows whose county field is exactly "Ingham"
InghamRows(t) ==
    { i \in NonBlank(t) : /\ HasKey(t.header, "county")
                          /\ Field(t.header, t.rows[i], "county") = Ingham }

OfficeOf(t, i) == Field(t.header, t.rows[i], "office")
DistrictOf(t, i) == Field(t.header, t.rows[i], "district")

\* row i carries a value for every required field
FullRow(t, i) ==
    \A k \in Required :
        /\ HasKey(t.header, k)
        /\ Field(t.header, t.rows[i], k) # None

Members(s) == { s[i] : i \in 1..Len(s) }

Contains(s, sub) ==
    \E i \in 0..(Len(s) - Len(sub)) : \A j \in 1..Len(sub) : s[i + j] = sub[j]

Left == pc \in {"returned", "raised"}

\* the lines of out printed for file j
Block(j) ==
    LET OfFile(l) == l.year = Years[j]
    IN  SelectSeq(out, OfFile)

FileOf(y) == CHOOSE j \in 1..NFiles : Years[j] = y

----------------------------------------------------------------------------
(* C1: the labels returned are exactly the labels of the rows whose county  *)
(* is "Ingham" by exact match; every other row contributes nothing.         *)
C1_LabelsExactlyFromIngham ==
    pc = "returned" =>
        Members(result) =
            { Label(OfficeOf(fs[idx], i), DistrictOf(fs[idx], i)) :
                i \in InghamRows(fs[idx]) }

C1_Witness ==
    /\ pc = "returned"
    /\ Len(result) = 1
    /\ InghamRows(fs[idx]) # {}
    /\ \E i \in NonBlank(fs[idx]) :
          Field(fs[idx].header, fs[idx].rows[i], "county")
              \in {InghamLower, InghamSpace}

(* C2: for a consumed row whose county is "Ingham" the label added is the   *)
(* office verbatim when district is "", and office, " - District ",         *)
(* district in that order when district is a non-empty string.              *)
C2_LabelFormat ==
    [][ LET t == fs[idx]
            i == pos + 1
            o == OfficeOf(t, i)
            d == DistrictOf(t, i)
        IN  ( /\ pc = "read"
              /\ pos' = pos + 1
              /\ i \in InghamRows(t)
              /\ \A k \in Required : HasKey(t.header, k)
              /\ \/ d = Empty
                 \/ d # None /\ o # None )
            => /\ pc' = "read"
               /\ Members(races') =
                    Members(races) \cup
                        {IF d = Empty THEN o ELSE o \o DistrictSep \o d} ]_vars

C2_Witness ==
    /\ pc = "read"
    /\ pos = 2
    /\ races = <<StrB, StrB \o DistrictSep \o Str1>>

(* C3: no label appears more than once in the returned sequence.            *)
C3_NoDuplicates ==
    pc = "returned" =>
        \A i, j \in 1..Len(result) : i # j => result[i] # result[j]

C3_Witness ==
    /\ pc = "returned"
    /\ Len(fs[idx].rows) = 2
    /\ fs[idx].rows[1] = fs[idx].rows[2]
    /\ InghamRows(fs[idx]) = {1, 2}
    /\ Len(result) = 1

(* C4: the returned sequence is ascending in code-point order: a <= b for   *)
(* every adjacent pair.                                                     *)
C4_SortedAscending ==
    pc = "returned" =>
        \A i \in 1..(Len(result) - 1) :
            result[i] = result[i + 1] \/ StrLess(result[i], result[i + 1])

C4_Witness ==
    /\ pc = "returned"
    /\ Len(result) = 2
    /\ result[1] # races[1]

(* C5 as stated: a consumed data row that lacks a required field, because   *)
(* the header does not declare it or because the row is too short, makes    *)
(* extraction fail instead of returning.                                    *)
C5_MissingFieldFails ==
    pc = "returned" =>
        \A i \in NonBlank(fs[idx]) : FullRow(fs[idx], i)

\* a field access of the loop body that the header cannot serve
UndeclaredAccess(t) ==
    \E i \in NonBlank(t) :
        \/ ~HasKey(t.header, "county")
        \/ /\ i \in InghamRows(t)
           /\ ~HasKey(t.header, "office") \/ ~HasKey(t.header, "district")

(* C5 amended: extraction fails with KeyError exactly when a non-blank row  *)
(* is read under a header without county, or has county "Ingham" under a    *)
(* header without office or district; a row shorter than the header raises  *)
(* no KeyError.                                                             *)
C5_KeyErrorExactly ==
    Left => /\ (err = "KeyError") <=> (fs[idx].exists /\ UndeclaredAccess(fs[idx]))
            /\ err = "KeyError" => pc = "raised"

C5_Witness ==
    /\ pc = "raised"
    /\ err = "KeyError"
    /\ pos = 2
    /\ HasKey(fs[idx].header, "county")
    /\ InghamRows(fs[idx]) = {2}

\* a readable file with the required header and no row of county "Ingham"
ZeroMatch(t) ==
    /\ t.exists
    /\ \A k \in Required : HasKey(t.header, k)
    /\ InghamRows(t) = {}

(* C6: a file with the required header and no "Ingham" row makes            *)
(* extract_races return the empty sequence without raising, and its report  *)
(* is the banner followed by "Total races: 0" and no race line.             *)
C6_EmptyReport ==
    \A j \in 1..NFiles :
        ZeroMatch(fs[j]) =>
            /\ idx = j => /\ pc # "raised"
                          /\ pc = "returned" => result = <<>>
            /\ idx > j => Block(j) = Banner(Years[j]) \o <<TotalLine(Years[j], 0)>>

C6_Witness ==
    /\ pc = "done"
    /\ ZeroMatch(fs[2])
    /\ Len(fs[2].rows) = 1
    /\ Len(Block(1)) > 4

(* C7: the files are processed one after another in the order 2024, 2022,   *)
(* 2020; when extraction of a file raises the run ends there: the failing   *)
(* file has its banner only, no later file has any line, and every earlier  *)
(* file has its complete report.                                            *)
C7_FailFast ==
    /\ \A a, b \in 1..Len(out) : a < b => FileOf(out[a].year) <= FileOf(out[b].year)
    /\ \A j \in 1..NFiles :
          ExtractRaces(fs[j]).raised =>
              /\ \A n \in 1..Len(Block(j)) : Block(j)[n].kind \in {"rule", "title"}
              /\ \A k \in (j + 1)..NFiles : Block(k) = <<>>
    /\ pc = "raised" =>
          /\ ~ENABLED Next
          /\ Block(idx) = Banner(Years[idx])
          /\ \A j \in 1..(idx - 1) :
                Block(j) = Banner(Years[j])
                             \o Report(Years[j], ExtractRaces(fs[j]).result)

C7_Witness ==
    /\ pc = "raised"
    /\ idx = 2
    /\ Len(Block(1)) = 5
    /\ Block(2) = Banner(2022)
    /\ ~ExtractRaces(fs[3]).raised

(* C8: the outcome of extract_races is the same for every permutation of    *)
(* the data rows.                                                           *)
C8_RowOrderIrrelevant ==
    Left =>
        LET t == fs[idx]
            n == Len(t.rows)
        IN  \A p \in Permutations(1..n) :
                ExtractRaces([t EXCEPT !.rows = [i \in 1..n |-> t.rows[p[i]]]])
                    = [raised |-> pc = "raised", err |-> err, result |-> result]

C8_Witness ==
    /\ pc = "returned"
    /\ races = <<StrB, StrADistrict1>>
    /\ result = <<StrADistrict1, StrB>>

\* the (office, district) pairs of the rows whose county is "Ingham"
Pairs(t) == { <<OfficeOf(t, i), DistrictOf(t, i)>> : i \in InghamRows(t) }

C10_FileClosed ==
    /\ Cardinality(open) <= 1
    /\ pc = "read" => open = {idx}
    /\ pc # "read" => open = {}

C10_Witness ==
    /\ pc = "raised"
    /\ err = "KeyError"
    /\ idx = 2
    /\ open = {}

====
